---- MODULE Spec2Model ----
(***************************************************************************)
(* Hotel Chatbot Knowledge Manager (streamlit_app.py).                     *)
(*                                                                         *)
(* The Streamlit script main() is re-executed once per user interaction.   *)
(* The state is the widget values, st.session_state, the position of the   *)
(* running script (pc), what the run has displayed (ui) and the calls it   *)
(* has made to its collaborators.  A run ends at the end of the script or  *)
(* is stopped by Streamlit, at one of its st.* calls, when the user has    *)
(* touched a widget in the meantime.  The crawler (real_hotel_scraper) and *)
(* the document ingestor (hotel_scraper) are imported by the script but    *)
(* are not part of the source tree; the crawler is modelled from section   *)
(* 4.5 of the specification, the ingestor by its boolean/exception result. *)
(***************************************************************************)
EXTENDS Integers, Sequences, FiniteSets, TLC

(* ---------------------------- bounds ----------------------------------- *)
\* number of pages of the crawled site (URL ids 0..NumUrls-1, 0 = seed)
NumUrls == 6
\* a page links at most to the next LinkSpan pages (plus itself and the seed)
LinkSpan == 2
\* longest upload batch
MaxFiles == 3
\* cap of the uploaded_docs counter
MaxDocs == 3

(* ------------------------ program constants ---------------------------- *)
SliderMin == 5
SliderMax == 50
SliderStep == 5
SliderDefault == 20
\* delays are in tenths of a second
DelayMin == 10
DelayMax == 50
DelayStep == 5
DelayDefault == 20
PreviewMaxPages == 3
PreviewDelay == 10

\* Python's None, as held by st.session_state.hotel_id / last_scrape
None == "<None>"
\* no exception was caught
NoExc == "<none>"
NoTime == 0


VARIABLES
    MODULES_AVAILABLE,  \* result of the guarded import
    hotel_id_input,     \* what st.text_input "Hotel ID" returned in the last run
    hotel_id_value,     \* value= the "Hotel ID" widget was created with
    website_url,        \* text_input "Hotel Website URL" (token sequence)
    max_pages,          \* slider "Maximum Pages to Scrape"
    delay,              \* number_input "Delay (seconds)", in tenths
    uploaded_files,     \* file_uploader contents (sequence of file names)
    ss_hotel_id,        \* st.session_state.hotel_id
    scraped_pages,      \* st.session_state.scraped_pages
    uploaded_docs,      \* st.session_state.uploaded_docs
    last_scrape,        \* st.session_state.last_scrape
    pc,                 \* position of the running script
    run,                \* what triggered the current (or last) script run
    stopped,            \* the last run was stopped by Streamlit before its end
    ui,                 \* elements the current run has displayed in its tab
    calls,              \* collaborator calls of the current scrape/preview run
    exc,                \* the statement whose exception the run's handler caught
    crawl_args,         \* arguments of the crawl invocation of this run
    crawl_state,        \* Crawler state machine
    frontier,           \* CrawlFrontier queue
    seen,               \* CrawlFrontier visited-or-queued set
    pages,              \* SiteResult.pages
    pages_scraped,      \* the crawler's count of the pages it retained
    total_words,        \* the crawler's count of the words it retained
    page_types,         \* SiteResult.metadata.page_types (entries in dict order)
    failed,             \* URLs whose fetch failed in this session
    n_chunks,           \* len(chunks) of this run
    saves,              \* file names save_results was called with in this run
    idx,                \* upload loop index (files already handled)
    processed,          \* process_uploaded_document calls of this batch
    not_saved,          \* files of this batch (loop positions) whose
                        \* temporary copy could not be written
    tmp_files,          \* temporary files of this batch that still exist
    docs_before         \* uploaded_docs when the batch started

tabs == <<website_url, max_pages, delay, uploaded_files>>
widgets == <<hotel_id_input, hotel_id_value, tabs>>
session == <<ss_hotel_id, scraped_pages, uploaded_docs, last_scrape>>
crawler == <<crawl_args, crawl_state, frontier, seen, pages, pages_scraped,
             total_words, page_types, failed>>
upload  == <<idx, processed, not_saved, tmp_files, docs_before>>
vars == <<MODULES_AVAILABLE, widgets, session, pc, run, stopped, ui, calls, exc,
          crawler, n_chunks, saves, upload>>

(* ----------------------------- helpers --------------------------------- *)
Min(a, b) == IF a < b THEN a ELSE b

Range(s) == {s[i] : i \in 1..Len(s)}

RECURSIVE SetToSeq(_)
SetToSeq(S) ==
    IF S = {} THEN <<>>
    ELSE LET m == CHOOSE x \in S : \A y \in S : x <= y
         IN  <<m>> \o SetToSeq(S \ {m})

\* Python truthiness of a str-or-None value
Truthy(s) == s # None /\ s # ""

\* str(x) inside an f-string
Str(s) == IF s = None THEN "None" ELSE s

\* f"{n:,}": the digits of n in groups of three
RECURSIVE Grouped(_)
Grouped(n) ==
    IF n < 1000 THEN <<n>> ELSE Grouped(n \div 1000) \o <<n % 1000>>

Msg(kind, about, val) == [kind |-> kind, about |-> about, val |-> val]

(* --------------------------- input domains ----------------------------- *)
HotelIds == {"h1"}
HotelTexts == {""} \cup HotelIds

\* URL texts as token sequences: scheme, separator, rest
UrlHttps == <<"https", "://", "www.your-hotel.com">>
UrlBare  == <<"www.your-hotel.com">>
UrlTexts == {<<>>, UrlHttps, UrlBare}

SliderValues == {v \in SliderMin..SliderMax : (v - SliderMin) % SliderStep = 0}
SliderChoices == {v \in SliderValues : v \in {SliderMin, SliderDefault}}

DelayValues == {d \in DelayMin..DelayMax : (d - DelayMin) % DelayStep = 0}
DelayChoices == {d \in DelayValues : d \in {DelayMin, DelayDefault}}

\* readings of datetime.now().strftime("%Y-%m-%d %H:%M"): minutes, later
\* ones larger
Instants == {1, 2}

FileNames == {"menu.pdf", "rates.xlsx"}
FileBatches == UNION {[1..n -> FileNames] : n \in 0..MaxFiles}

ProcessOutcomes == {"success", "failure", "raise"}

\* how lines 300-305 end: the temporary copy is written, NamedTemporaryFile
\* raises (no file exists), or tmp.write raises (the file exists: delete=False)
TempOutcomes == {"saved", "create_raises", "write_raises"}

\* how os.unlink(tmp_path), line 314, ends: the file is removed, it is gone
\* already (FileNotFoundError), or it cannot be removed (it stays)
UnlinkOutcomes == {"removed", "missing", "denied"}

\* what process_uploaded_document did with the temporary file it was given:
\* it left it in place, or it moved or removed it
FileOutcomes == {"kept", "gone"}

\* the ways one iteration of the upload loop can go: a statement that is
\* not reached has no outcome; os.unlink finds the file missing exactly
\* when the call did not leave it in place
NotReached == "not_reached"

Attempts ==
    {[temp |-> t, outcome |-> NotReached, file |-> NotReached,
      unlink |-> NotReached] : t \in TempOutcomes \ {"saved"}}
    \cup {[temp |-> "saved", outcome |-> "raise", file |-> f,
           unlink |-> NotReached] : f \in FileOutcomes}
    \cup {[temp |-> "saved", outcome |-> o, file |-> "kept", unlink |-> u] :
             o \in ProcessOutcomes \ {"raise"},
             u \in UnlinkOutcomes \ {"missing"}}
    \cup {[temp |-> "saved", outcome |-> o, file |-> "gone",
           unlink |-> "missing"] : o \in ProcessOutcomes \ {"raise"}}

(* ------------------ crawl input contract (spec section 6) -------------- *)
IsAbsoluteHttp(u) ==
    /\ Len(u) >= 3
    /\ u[1] \in {"http", "https"}
    /\ u[2] = "://"
    /\ u[3] # ""

(* ------------------------- crawler (section 4.5) ----------------------- *)
Urls == 0..(NumUrls - 1)
SeedUrl == 0

PageTypes == <<"other", "room", "pricing", "dining">>
PageTypeSet == Range(PageTypes)

\* deterministic classification by URL
Classify(u) == PageTypes[(u % Len(PageTypes)) + 1]

ChunksOf(u) == 1 + (u % 2)

\* word count of the extracted text of a page
WordCount(u) == 400 * (1 + (u % 3))

\* metadata.page_types is a mapping type -> count; its entries are kept in
\* the order in which the types first occurred
NoPageTypes == <<>>

CountPage(pt, t) ==
    IF \E i \in 1..Len(pt) : pt[i].type = t
       THEN [i \in 1..Len(pt) |->
                IF pt[i].type = t
                   THEN [type |-> t, count |-> pt[i].count + 1]
                   ELSE pt[i]]
       ELSE Append(pt, [type |-> t, count |-> 1])

RECURSIVE TotalCount(_)
TotalCount(pt) ==
    IF pt = <<>> THEN 0 ELSE Head(pt).count + TotalCount(Tail(pt))

\* raw links of a page: every page links back to the seed (its home link)
\* and to an anchor of itself; it may link to any of the next LinkSpan pages
NavLinks(u) == {<<SeedUrl, "">>, <<u, "#top">>}

ForwardLinks(u) ==
    {<<v, "">> : v \in (u + 1)..Min(u + LinkSpan, NumUrls - 1)}

\* URL normalisation: the fragment does not affect content identity
Normalize(l) == l[1]

ExtractLinks(raw) == {Normalize(l) : l \in raw}

\* the frontier as it would be without the visited-set gate
Enqueue_NoGate(q, s, links) == q \o SetToSeq(links)

\* visited-set gate: only URLs neither visited nor queued are enqueued
Enqueue(q, s, links) == q \o SetToSeq(links \ s)

PageRecord(u) == [url |-> u, page_type |-> Classify(u)]

\* the result of a crawl: the pages, and the aggregate metadata of section
\* 3; the script reads pages_scraped at the top level of the result (lines
\* 199, 202, 207), so the crawler's count is there as well
SiteResult ==
    [pages |-> pages,
     pages_scraped |-> pages_scraped,
     metadata |-> [total_words |-> total_words,
                   page_types |-> page_types,
                   pages_scraped |-> pages_scraped]]

Terminal == {"Completed", "Aborted"}

(* ------------------------------- Init ---------------------------------- *)
Init ==
    /\ MODULES_AVAILABLE \in BOOLEAN
    /\ hotel_id_input = ""
    /\ hotel_id_value = ""
    /\ website_url = <<>>
    /\ max_pages = SliderDefault
    /\ delay = DelayDefault
    /\ uploaded_files = <<>>
    /\ ss_hotel_id = None
    /\ scraped_pages = 0
    /\ uploaded_docs = 0
    /\ last_scrape = NoTime
    /\ pc = "idle"
    /\ run = "render"
    /\ stopped = FALSE
    /\ ui = <<>>
    /\ calls = <<>>
    /\ exc = NoExc
    /\ crawl_args = [seed_url |-> <<>>, max_pages |-> SliderDefault,
                     delay |-> DelayDefault]
    /\ crawl_state = "Idle"
    /\ frontier = <<>>
    /\ seen = {}
    /\ pages = <<>>
    /\ pages_scraped = 0
    /\ total_words = 0
    /\ page_types = NoPageTypes
    /\ failed = {}
    /\ n_chunks = 0
    /\ saves = {}
    /\ idx = 0
    /\ processed = <<>>
    /\ not_saved = {}
    /\ tmp_files = {}
    /\ docs_before = 0

(* ------------------- script runs and the sidebar ----------------------- *)
\* line 55: value=st.session_state.hotel_id or ""
HotelIdDefault == IF Truthy(ss_hotel_id) THEN ss_hotel_id ELSE ""

\* lines 53-58: the widget has no key, so its identity includes value=.
\* With the value= of the last run it is the same widget and returns the
\* text the user left in it; with another value= it is a new widget and
\* returns that default, whatever the user typed into the old one.
HotelIdReturned(text) ==
    IF HotelIdDefault = hotel_id_value THEN text ELSE HotelIdDefault

\* lines 60-64: a non-empty Hotel ID text replaces the session's hotel id
Sidebar(text) == IF text # "" THEN text ELSE ss_hotel_id

\* lines 53-64 of a run, for the text the browser holds in the field
SidebarRun(text) ==
    /\ hotel_id_input' = HotelIdReturned(text)
    /\ hotel_id_value' = HotelIdDefault
    /\ ss_hotel_id' = Sidebar(HotelIdReturned(text))

\* every run starts from a fresh script: locals of the previous run are gone
NoArgs == [seed_url |-> <<>>, max_pages |-> SliderDefault,
           delay |-> DelayDefault]

FreshCrawler ==
    /\ crawl_state' = "Idle"
    /\ frontier' = <<>>
    /\ seen' = {}
    /\ pages' = <<>>
    /\ pages_scraped' = 0
    /\ total_words' = 0
    /\ page_types' = NoPageTypes
    /\ failed' = {}
    /\ n_chunks' = 0
    /\ saves' = {}

FreshUpload ==
    /\ idx' = 0
    /\ processed' = <<>>
    /\ not_saved' = {}
    /\ tmp_files' = {}
    /\ docs_before' = uploaded_docs

FreshLocals ==
    /\ calls' = <<>>
    /\ exc' = NoExc
    /\ crawl_args' = NoArgs
    /\ FreshCrawler
    /\ FreshUpload

\* a run in which no button was pressed
RenderRun ==
    /\ run' = "render"
    /\ stopped' = FALSE
    /\ ui' = <<>>
    /\ pc' = "idle"
    /\ FreshLocals
    /\ UNCHANGED <<MODULES_AVAILABLE, scraped_pages, uploaded_docs,
                   last_scrape>>

EditHotelId(text) ==
    /\ pc = "idle"
    /\ text # hotel_id_input
    /\ SidebarRun(text)
    /\ RenderRun
    /\ UNCHANGED tabs

\* a run started by a widget whose value is not part of the state: the
\* "GCP Project ID" field (lines 67-73), the "Description" area (lines
\* 276-280), the buttons and the query field of tab 3 (lines 356-441)
Rerun ==
    /\ pc = "idle"
    /\ SidebarRun(hotel_id_input)
    /\ RenderRun
    /\ UNCHANGED tabs

EditUrl(u) ==
    /\ pc = "idle"
    /\ u # website_url
    /\ website_url' = u
    /\ SidebarRun(hotel_id_input)
    /\ RenderRun
    /\ UNCHANGED <<max_pages, delay, uploaded_files>>

SetMaxPages(v) ==
    /\ pc = "idle"
    /\ v # max_pages
    /\ max_pages' = v
    /\ SidebarRun(hotel_id_input)
    /\ RenderRun
    /\ UNCHANGED <<website_url, delay, uploaded_files>>

SetDelay(d) ==
    /\ pc = "idle"
    /\ d # delay
    /\ delay' = d
    /\ SidebarRun(hotel_id_input)
    /\ RenderRun
    /\ UNCHANGED <<website_url, max_pages, uploaded_files>>

ChooseFiles(fs) ==
    /\ pc = "idle"
    /\ fs # uploaded_files
    /\ uploaded_files' = fs
    /\ SidebarRun(hotel_id_input)
    /\ RenderRun
    /\ UNCHANGED <<website_url, max_pages, delay>>

(* --------------------- tab 1: "Start Scraping" ------------------------- *)
\* the button's condition as it would be without the hotel id
can_scrape_NoHotel ==
    /\ website_url # <<>>
    /\ MODULES_AVAILABLE

\* line 159
can_scrape ==
    /\ Truthy(ss_hotel_id)
    /\ website_url # <<>>
    /\ MODULES_AVAILABLE

\* lines 180-181: the scraper is built from the slider and the number input
ScrapeArgs ==
    [seed_url |-> website_url, max_pages |-> max_pages, delay |-> delay]

\* how the statements between a pressed button and the crawl end: the
\* run is stopped by a new interaction at one of the st.* calls before the
\* constructor (lines 171-177, line 232), RealHotelScraper(...) raises, or
\* it returns the scraper
StartOutcomes == {"stopped", "raises", "built"}

\* lines 161-181: button pressed; the run is stopped at an st.* call of
\* lines 171-177 (no handler is entered, nothing was called), or
\* RealHotelScraper(...) raises into the handler of line 219, or it returns
\* the scraper and the crawl is invoked
ClickScrape(start) ==
    /\ pc = "idle"
    /\ can_scrape
    /\ run' = "scrape"
    /\ stopped' = (start = "stopped")
    /\ ui' = <<>>
    /\ SidebarRun(hotel_id_input)
    /\ FreshCrawler
    /\ FreshUpload
    /\ crawl_args' = IF start = "built" THEN ScrapeArgs ELSE NoArgs
    /\ calls' = IF start = "built" THEN <<"scrape_hotel_website">> ELSE <<>>
    /\ exc' = IF start = "raises" THEN "RealHotelScraper" ELSE NoExc
    /\ pc' = CASE start = "built" -> "crawl"
              [] start = "raises" -> "except"
              [] start = "stopped" -> "idle"
    /\ UNCHANGED <<MODULES_AVAILABLE, tabs, scraped_pages, uploaded_docs,
                   last_scrape>>

(* ---------------- the crawler's loop (spec section 4.5) ----------------- *)
Crawling == pc = "crawl" /\ crawl_state = "Running"

\* the loop continues while the budget is not reached and the frontier
\* is not empty
CrawlMore ==
    /\ Len(pages) < crawl_args.max_pages
    /\ frontier # <<>>

CrawlKeep == UNCHANGED <<MODULES_AVAILABLE, widgets, session, pc, run,
                         stopped, ui, calls, exc, crawl_args, n_chunks,
                         saves, upload>>

\* Idle -> Running: the seed is the first frontier entry
CrawlBegin ==
    /\ pc = "crawl"
    /\ crawl_state = "Idle"
    /\ crawl_state' = "Running"
    /\ frontier' = <<SeedUrl>>
    /\ seen' = {SeedUrl}
    /\ UNCHANGED <<pages, pages_scraped, total_words, page_types, failed>>
    /\ CrawlKeep

\* Running -> Completed when the budget is reached or the frontier is empty
CrawlComplete ==
    /\ Crawling
    /\ ~CrawlMore
    /\ crawl_state' = "Completed"
    /\ UNCHANGED <<frontier, seen, pages, pages_scraped, total_words,
                   page_types, failed>>
    /\ CrawlKeep

\* fetch failure: recorded; fatal only for the seed
CrawlFetchFail ==
    /\ Crawling
    /\ CrawlMore
    /\ LET u == Head(frontier) IN
        /\ failed' = failed \cup {u}
        /\ frontier' = Tail(frontier)
        /\ crawl_state' = IF u = SeedUrl THEN "Aborted" ELSE "Running"
    /\ UNCHANGED <<seen, pages, pages_scraped, total_words, page_types>>
    /\ CrawlKeep

\* the low-content step as it would be if the dropped page were counted
CrawlFetchLow_Counted ==
    /\ Crawling
    /\ CrawlMore
    /\ IsAbsoluteHttp(crawl_args.seed_url)
    /\ frontier' = Tail(frontier)
    /\ pages_scraped' = pages_scraped + 1
    /\ UNCHANGED <<crawl_state, seen, pages, total_words, page_types,
                   failed>>
    /\ CrawlKeep

\* fetched, but below the minimum word count: dropped, links not followed
CrawlFetchLow ==
    /\ Crawling
    /\ CrawlMore
    /\ IsAbsoluteHttp(crawl_args.seed_url)
    /\ frontier' = Tail(frontier)
    /\ UNCHANGED <<crawl_state, seen, pages, pages_scraped, total_words,
                   page_types, failed>>
    /\ CrawlKeep

\* fetched, extracted, classified: record appended, new links enqueued
CrawlFetchOk(raw) ==
    /\ Crawling
    /\ CrawlMore
    /\ IsAbsoluteHttp(crawl_args.seed_url)
    /\ LET u == Head(frontier)
           rec == PageRecord(u)
           links == ExtractLinks(raw)
       IN
        /\ NavLinks(u) \subseteq raw
        /\ raw \subseteq NavLinks(u) \cup ForwardLinks(u)
        /\ pages' = Append(pages, rec)
        /\ pages_scraped' = pages_scraped + 1
        /\ total_words' = total_words + WordCount(u)
        /\ page_types' = CountPage(page_types, rec.page_type)
        /\ frontier' = Enqueue(Tail(frontier), seen, links)
        /\ seen' = seen \cup links
    /\ UNCHANGED <<crawl_state, failed>>
    /\ CrawlKeep

\* the link sets the page at the head of the frontier may carry: its
\* navigation links and links to the next j pages, for any j up to LinkSpan
RawLinkSets ==
    IF frontier = <<>> THEN {{}}
    ELSE LET u == Head(frontier) IN
         {NavLinks(u) \cup {l \in ForwardLinks(u) : l[1] <= u + j} :
              j \in 0..LinkSpan}

CrawlNext ==
    \/ CrawlBegin
    \/ CrawlComplete
    \/ CrawlFetchFail
    \/ CrawlFetchLow
    \/ \E raw \in RawLinkSets : CrawlFetchOk(raw)

(* ------------- "Start Scraping": after the crawl (lines 183-223) ------- *)
CrawlReturned == pc = "crawl" /\ crawl_state \in Terminal

RunKeep == UNCHANGED <<MODULES_AVAILABLE, widgets, run, stopped>>

\* an exception escapes scrape_hotel_website: no result is returned, the
\* handler of the try block the call sits in (line 219 or 245) is entered
CrawlRaises ==
    /\ Crawling
    /\ crawl_state' = "Aborted"
    /\ frontier' = <<>>
    /\ seen' = {}
    /\ pages' = <<>>
    /\ pages_scraped' = 0
    /\ total_words' = 0
    /\ page_types' = NoPageTypes
    /\ failed' = {}
    /\ exc' = "scrape_hotel_website"
    /\ pc' = "except"
    /\ RunKeep
    /\ UNCHANGED <<session, ui, calls, crawl_args, n_chunks, saves, upload>>

RECURSIVE CountChunks(_)
CountChunks(ps) ==
    IF ps = <<>> THEN 0 ELSE ChunksOf(Head(ps).url) + CountChunks(Tail(ps))

\* lines 183-187: chunks = create_knowledge_chunks(scraped_data)
CreateChunks ==
    /\ CrawlReturned
    /\ run = "scrape"
    /\ calls' = Append(calls, "create_knowledge_chunks")
    /\ n_chunks' = CountChunks(SiteResult.pages)
    /\ pc' = "save"
    /\ RunKeep
    /\ UNCHANGED <<session, ui, exc, crawler, saves, upload>>

\* line 187 raises
CreateChunksRaises ==
    /\ CrawlReturned
    /\ run = "scrape"
    /\ calls' = Append(calls, "create_knowledge_chunks")
    /\ exc' = "create_knowledge_chunks"
    /\ pc' = "except"
    /\ RunKeep
    /\ UNCHANGED <<session, ui, crawler, n_chunks, saves, upload>>

\* line 193: f"scraped_{st.session_state.hotel_id}.json"
SaveName == <<"scraped_", Str(ss_hotel_id), ".json">>

\* lines 189-193: save_results returns
SaveResults ==
    /\ pc = "save"
    /\ calls' = Append(calls, "save_results")
    /\ saves' = saves \cup {SaveName}
    /\ pc' = "store"
    /\ RunKeep
    /\ UNCHANGED <<session, ui, exc, crawler, n_chunks, upload>>

\* the failure path as it would be if the session state were updated
\* before save_results is called
SaveResultsRaises_Updated ==
    /\ pc = "save"
    /\ calls' = Append(calls, "save_results")
    /\ saves' = saves \cup {SaveName}
    /\ scraped_pages' = SiteResult.pages_scraped
    /\ last_scrape' = last_scrape + 1
    /\ exc' = "save_results"
    /\ pc' = "except"
    /\ RunKeep
    /\ UNCHANGED <<ss_hotel_id, uploaded_docs, ui, crawler, n_chunks, upload>>

\* line 193 raises
SaveResultsRaises ==
    /\ pc = "save"
    /\ calls' = Append(calls, "save_results")
    /\ saves' = saves \cup {SaveName}
    /\ exc' = "save_results"
    /\ pc' = "except"
    /\ RunKeep
    /\ UNCHANGED <<session, ui, crawler, n_chunks, upload>>

\* lines 195-200: the session state is updated; now is the minute
\* datetime.now() falls in, whatever the minute of the last scrape was
StoreResults(now) ==
    /\ pc = "store"
    /\ scraped_pages' = SiteResult.pages_scraped
    /\ last_scrape' = now
    /\ pc' = "show"
    /\ RunKeep
    /\ UNCHANGED <<ss_hotel_id, uploaded_docs, ui, calls, exc, crawler,
                   n_chunks, saves, upload>>

\* lines 195-200 raise into the handler of line 219, after assigned of the
\* two assignments: none (lines 195-199 raise), or the one of line 199
\* (line 200 raises)
StoreResultsRaises(assigned) ==
    /\ pc = "store"
    /\ scraped_pages' = IF assigned >= 1 THEN SiteResult.pages_scraped
                        ELSE scraped_pages
    /\ exc' = "update"
    /\ pc' = "except"
    /\ RunKeep
    /\ UNCHANGED <<ss_hotel_id, uploaded_docs, last_scrape, ui, calls,
                   crawler, n_chunks, saves, upload>>

\* lines 213-217: one row per entry of metadata.page_types, in dict order
Bars(entries) ==
    [i \in 1..Len(entries) |-> Msg("bar", entries[i].type, entries[i].count)]

\* lines 202-209: success message, balloons, the three metrics
SummaryHead(data, chunks) ==
    <<Msg("success", "scrape", data.pages_scraped),
      Msg("balloons", "scrape", 0),
      Msg("metric", "Pages", data.pages_scraped),
      Msg("metric", "Chunks", chunks),
      Msg("metric", "Words", Grouped(data.metadata.total_words))>>

\* lines 202-217: success message, summary metrics, content breakdown
ScrapeSummary(data, chunks) ==
    SummaryHead(data, chunks) \o Bars(data.metadata.page_types)

\* lines 202-217 run to their end
ShowSummary ==
    /\ pc = "show"
    /\ ui' = ui \o ScrapeSummary(SiteResult, n_chunks)
    /\ pc' = "idle"
    /\ RunKeep
    /\ UNCHANGED <<session, calls, exc, crawler, n_chunks, saves, upload>>

\* how many elements of the summary are on the screen when a statement of
\* lines 202-217 raises: the chart is the single, last call, so any part
\* of the head and no row of the chart
RaiseLengths == 0..Len(SummaryHead(SiteResult, n_chunks))

\* a statement of lines 202-217 raises into the handler of line 219 after
\* k elements of the summary were displayed
ShowSummaryRaises(k) ==
    /\ pc = "show"
    /\ k \in RaiseLengths
    /\ ui' = ui \o SubSeq(ScrapeSummary(SiteResult, n_chunks), 1, k)
    /\ exc' = "summary"
    /\ pc' = "except"
    /\ RunKeep
    /\ UNCHANGED <<session, calls, crawler, n_chunks, saves, upload>>

\* lines 219-223: the handler of the scrape's try block
ScrapeFailed ==
    <<Msg("error", "Scraping failed", 0), Msg("info", "Tips", 0)>>

\* lines 245-246: the handler of the preview's try block
PreviewFailed == <<Msg("error", "Preview failed", 0)>>

ErrorShown == IF run = "scrape" THEN ScrapeFailed ELSE PreviewFailed

\* lines 219-223 or 245-246 run to their end: what the try block had
\* displayed stays on the screen
ShowError ==
    /\ pc = "except"
    /\ ui' = ui \o ErrorShown
    /\ pc' = "idle"
    /\ RunKeep
    /\ UNCHANGED <<session, calls, exc, crawler, n_chunks, saves, upload>>

(* ------------------- tab 1: "Generate Preview" ------------------------- *)
\* the preview's scraper as it would be if built from the slider
PreviewArgs_SliderBudget ==
    [seed_url |-> website_url, max_pages |-> max_pages,
     delay |-> PreviewDelay]

\* line 234
PreviewArgs ==
    [seed_url |-> website_url, max_pages |-> PreviewMaxPages,
     delay |-> PreviewDelay]

\* lines 231-235: the button is never disabled; without a URL (or without
\* the modules) the run shows nothing; with them the run is stopped at the
\* st.spinner of line 232, or RealHotelScraper(...) raises into the handler
\* of line 245, or it returns the scraper and the crawl is invoked
ClickPreview(start) ==
    /\ pc = "idle"
    /\ run' = "preview"
    /\ ui' = <<>>
    /\ SidebarRun(hotel_id_input)
    /\ FreshCrawler
    /\ FreshUpload
    /\ IF website_url # <<>> /\ MODULES_AVAILABLE
          THEN /\ stopped' = (start = "stopped")
               /\ crawl_args' = IF start = "built" THEN PreviewArgs
                                 ELSE NoArgs
               /\ calls' = IF start = "built"
                              THEN <<"scrape_hotel_website">> ELSE <<>>
               /\ exc' = IF start = "raises" THEN "RealHotelScraper"
                          ELSE NoExc
               /\ pc' = CASE start = "built" -> "crawl"
                         [] start = "raises" -> "except"
                         [] start = "stopped" -> "idle"
          ELSE /\ stopped' = FALSE
               /\ crawl_args' = NoArgs
               /\ calls' = <<>>
               /\ exc' = NoExc
               /\ pc' = "idle"
    /\ UNCHANGED <<MODULES_AVAILABLE, tabs, scraped_pages, uploaded_docs,
                   last_scrape>>

\* lines 237-244: one element per page (its title, caption and content,
\* lines 239-242), or the warning of line 244
PreviewPages(ps) ==
    IF ps # <<>>
       THEN [i \in 1..Len(ps) |-> Msg("preview_page", ps[i].page_type, i)]
       ELSE <<Msg("warning", "No content found in preview", 0)>>

\* lines 237-244 run to their end
PreviewShow ==
    /\ CrawlReturned
    /\ run = "preview"
    /\ ui' = ui \o PreviewPages(SiteResult.pages)
    /\ pc' = "idle"
    /\ RunKeep
    /\ UNCHANGED <<session, calls, exc, crawler, n_chunks, saves, upload>>

\* how many elements of the listing are complete when a statement of lines
\* 237-244 raises: the page (or the warning) being displayed is not
ListingLengths == 0..(Len(PreviewPages(SiteResult.pages)) - 1)

\* a statement of lines 237-244 raises into the handler of line 245 (a key
\* missing from the result or from a page, an st.* call that refuses its
\* argument or its place) after k pages were displayed
PreviewShowRaises(k) ==
    /\ CrawlReturned
    /\ run = "preview"
    /\ k \in ListingLengths
    /\ ui' = ui \o SubSeq(PreviewPages(SiteResult.pages), 1, k)
    /\ exc' = "listing"
    /\ pc' = "except"
    /\ RunKeep
    /\ UNCHANGED <<session, calls, crawler, n_chunks, saves, upload>>

(* ------------- a run stopped by a new interaction ---------------------- *)
\* When the user touches a widget while the script runs, Streamlit stops
\* the script at its next st.* call (with an exception that is not an
\* Exception, so no handler of the script catches it) and starts the next
\* run.  The blocking calls are left alone; the st.* calls of the scrape
\* and preview handlers are those of lines 171-177 and 232 (a stop there is
\* an outcome of ClickScrape and ClickPreview), 183, 189, 195, 202-217,
\* 220-223, 239-246.

\* what the run would display next, were it not stopped
Pending ==
    IF pc = "show" THEN ScrapeSummary(SiteResult, n_chunks)
    ELSE IF pc = "except" THEN ErrorShown
    ELSE IF CrawlReturned /\ run = "preview" THEN PreviewPages(SiteResult.pages)
    ELSE <<>>

\* how many of these elements a stopped run may have displayed: the run is
\* stopped at an st.* call, and the chart is the single, last call of the
\* summary
StopLengths ==
    IF pc = "show" THEN 0..Len(SummaryHead(SiteResult, n_chunks))
    ELSE IF Pending = <<>> THEN {0}
    ELSE 0..(Len(Pending) - 1)

StopScrape(k) ==
    /\ \/ CrawlReturned
       \/ pc \in {"save", "store", "show", "except"}
    /\ k \in StopLengths
    /\ ui' = ui \o SubSeq(Pending, 1, k)
    /\ stopped' = TRUE
    /\ pc' = "idle"
    /\ UNCHANGED <<MODULES_AVAILABLE, widgets, session, run, calls, exc,
                   crawler, n_chunks, saves, upload>>

(* --------------------- tab 2: "Upload & Process" ----------------------- *)
\* line 286 (the button is only drawn when files are chosen, line 263)
can_upload ==
    /\ uploaded_files # <<>>
    /\ Truthy(ss_hotel_id)
    /\ MODULES_AVAILABLE

ClickUpload ==
    /\ pc = "idle"
    /\ can_upload
    /\ uploaded_docs + Len(uploaded_files) <= MaxDocs
    /\ run' = "upload"
    /\ stopped' = FALSE
    /\ ui' = <<>>
    /\ SidebarRun(hotel_id_input)
    /\ calls' = <<>>
    /\ exc' = NoExc
    /\ crawl_args' = NoArgs
    /\ FreshCrawler
    /\ FreshUpload
    /\ pc' = "upload"
    /\ UNCHANGED <<MODULES_AVAILABLE, tabs, scraped_pages, uploaded_docs,
                   last_scrape>>

\* line 308 is reached: process_uploaded_document is called
Called(a) == a.temp = "saved"

\* the try body raised (lines 300-314): the except of lines 322-323 runs
Raised(a) == a.temp # "saved" \/ a.outcome = "raise" \/ a.unlink # "removed"

\* lines 316-318 are reached with success = True
Counted(a) == ~Raised(a) /\ a.outcome = "success"

\* a temporary file was created and not removed
LeftOver(a) ==
    \/ a.temp = "write_raises"
    \/ a.file = "kept" /\ a.unlink # "removed"

\* lines 300-314 of the iteration for the file at position idx + 1
HandleFile(a) ==
    LET file == uploaded_files[idx + 1] IN
        /\ processed' = IF Called(a)
                           THEN Append(processed,
                                       [file |-> file, outcome |-> a.outcome])
                           ELSE processed
        /\ not_saved' = IF Called(a) THEN not_saved
                        ELSE not_saved \cup {idx + 1}
        /\ tmp_files' = IF LeftOver(a) THEN tmp_files \cup {idx + 1}
                        ELSE tmp_files

\* lines 316-323: the message of the iteration
Report(a) ==
    LET file == uploaded_files[idx + 1] IN
        IF Counted(a) THEN Msg("success", file, idx + 1)
        ELSE Msg("error", file, idx + 1)

\* the loop body as it would be if an exception left the loop (no
\* try/except inside the for)
UploadFile_AbortOnRaise(a) ==
    /\ pc = "upload"
    /\ idx < Len(uploaded_files)
    /\ HandleFile(a)
    /\ uploaded_docs' = IF Counted(a) THEN uploaded_docs + 1
                        ELSE uploaded_docs
    /\ ui' = Append(ui, Report(a))
    /\ idx' = idx + 1
    /\ pc' = IF Raised(a) THEN "idle" ELSE pc
    /\ RunKeep
    /\ UNCHANGED <<ss_hotel_id, scraped_pages, last_scrape, calls, exc,
                   crawler, n_chunks, saves, docs_before>>

\* lines 295-323: one iteration of the loop
UploadFile(a) ==
    /\ pc = "upload"
    /\ idx < Len(uploaded_files)
    /\ HandleFile(a)
    /\ uploaded_docs' = IF Counted(a) THEN uploaded_docs + 1
                        ELSE uploaded_docs
    /\ ui' = Append(ui, Report(a))
    /\ idx' = idx + 1
    /\ RunKeep
    /\ UNCHANGED <<ss_hotel_id, scraped_pages, last_scrape, pc, calls, exc,
                   crawler, n_chunks, saves, docs_before>>

\* lines 295-323, the run being stopped at the st.* call that reports the
\* iteration (line 317, 320 or 323): lines 300-314 have run, nothing is
\* shown and line 318 is not reached
UploadFileStopped(a) ==
    /\ pc = "upload"
    /\ idx < Len(uploaded_files)
    /\ HandleFile(a)
    /\ stopped' = TRUE
    /\ pc' = "idle"
    /\ UNCHANGED <<MODULES_AVAILABLE, widgets, session, run, ui, calls, exc,
                   crawler, n_chunks, saves, idx, docs_before>>

\* the run being stopped at line 297 (before a document is handled) or at
\* lines 325-327 (after the last one)
StopUpload ==
    /\ pc = "upload"
    /\ stopped' = TRUE
    /\ pc' = "idle"
    /\ UNCHANGED <<MODULES_AVAILABLE, widgets, session, run, ui, calls, exc,
                   crawler, n_chunks, saves, upload>>

\* lines 325-327
UploadFinish ==
    /\ pc = "upload"
    /\ idx = Len(uploaded_files)
    /\ ui' = Append(ui, Msg("balloons", "upload", 0))
    /\ pc' = "idle"
    /\ RunKeep
    /\ UNCHANGED <<session, calls, exc, crawler, n_chunks, saves, upload>>

(* ------------------------------ Next ----------------------------------- *)
SidebarNext ==
    \/ \E text \in HotelTexts : EditHotelId(text)
    \/ Rerun

ScrapeTabNext ==
    \/ \E u \in UrlTexts : EditUrl(u)
    \/ \E v \in SliderChoices : SetMaxPages(v)
    \/ \E d \in DelayChoices : SetDelay(d)
    \/ \E start \in StartOutcomes : ClickScrape(start)
    \/ CrawlBegin
    \/ CrawlComplete
    \/ CrawlFetchFail
    \/ CrawlFetchLow
    \/ \E raw \in RawLinkSets : CrawlFetchOk(raw)
    \/ CrawlRaises
    \/ CreateChunks
    \/ CreateChunksRaises
    \/ SaveResults
    \/ SaveResultsRaises
    \/ \E now \in Instants : StoreResults(now)
    \/ \E assigned \in 0..1 : StoreResultsRaises(assigned)
    \/ ShowSummary
    \/ \E k \in RaiseLengths : ShowSummaryRaises(k)
    \/ ShowError
    \/ \E start \in StartOutcomes : ClickPreview(start)
    \/ PreviewShow
    \/ \E k \in ListingLengths : PreviewShowRaises(k)
    \/ \E k \in StopLengths : StopScrape(k)

UploadTabNext ==
    \/ \E fs \in FileBatches : ChooseFiles(fs)
    \/ ClickUpload
    \/ \E a \in Attempts : UploadFile(a)
    \/ \E a \in Attempts : UploadFileStopped(a)
    \/ StopUpload
    \/ UploadFinish

Next ==
    \/ SidebarNext
    \/ ScrapeTabNext
    \/ UploadTabNext

\* the whole application
Spec == Init /\ [][Next]_vars

\* a session in which only the sidebar and the scraping tab are used
ScrapeNext ==
    \/ SidebarNext
    \/ ScrapeTabNext

ScrapeSpec == Init /\ [][ScrapeNext]_vars

\* a session in which only the sidebar and the upload tab are used
UploadNext ==
    \/ SidebarNext
    \/ UploadTabNext

UploadSpec == Init /\ [][UploadNext]_vars

\* the crawl is a sequential blocking loop: once invoked it keeps running
FairScrapeSpec == ScrapeSpec /\ WF_vars(CrawlNext)

\* the statements of the two try blocks of tab 1 that can raise
Raisers ==
    {"RealHotelScraper", "scrape_hotel_website", "create_knowledge_chunks",
     "save_results", "update", "summary", "listing"}

TypeOK ==
    /\ pc \in {"idle", "crawl", "except", "save", "store", "show", "upload"}
    /\ stopped \in BOOLEAN
    /\ uploaded_docs \in 0..MaxDocs
    /\ scraped_pages \in 0..NumUrls
    /\ last_scrape \in {NoTime} \cup Instants
    /\ hotel_id_input \in HotelTexts
    /\ hotel_id_value \in HotelTexts
    /\ not_saved \subseteq 1..MaxFiles
    /\ pages_scraped \in 0..NumUrls
    /\ total_words \in Nat
    /\ exc \in {NoExc} \cup Raisers
    /\ tmp_files \subseteq 1..MaxFiles

(* ========================= upload batch ================================ *)
ProcessedFiles == [i \in 1..Len(processed) |-> processed[i].file]

\* an upload batch that ran to its end (it was not stopped by a new
\* interaction)
BatchOver == pc = "idle" /\ run = "upload" /\ ~stopped

Kinds(u, ks) == {i \in 1..Len(u) : u[i].kind \in ks}

\* the number of files of the batch whose iteration has run lines 300-314
Begun == Len(processed) + Cardinality(not_saved)

\* the positions of the files handed to process_uploaded_document, in order
Handed == SetToSeq((1..Begun) \ not_saved)

\* C1: in an upload batch every file is attempted exactly once, in upload
\* order, whatever the outcomes of the earlier files: the files whose
\* iteration has begun are always the first files of the batch, each of
\* them was handed to process_uploaded_document exactly once, in order,
\* unless its temporary copy could not be written; while the loop runs they
\* are exactly the first idx files, and when the batch has run to its end
\* they are all the uploaded files.  Only a new interaction of the user,
\* never an outcome, ends a batch early.
C1_EveryFileAttempted ==
    /\ run = "upload" =>
          /\ Begun <= Len(uploaded_files)
          /\ not_saved \subseteq 1..Begun
          /\ ProcessedFiles =
                [i \in 1..Len(Handed) |-> uploaded_files[Handed[i]]]
    /\ pc = "upload" =>
          /\ idx <= Len(uploaded_files)
          /\ Begun = idx
    /\ BatchOver => Begun = Len(uploaded_files)

\* a batch that ran to its end although the call raised for its first file
\* and the temporary copy of another one could not be written
C1_Witness ==
    /\ BatchOver
    /\ Len(processed) >= 2
    /\ processed[1].outcome = "raise"
    /\ processed[2].outcome = "success"
    /\ not_saved # {}

Successes == {i \in 1..Len(processed) : processed[i].outcome = "success"}

\* C10: uploaded_docs never decreases; while an upload batch runs and when
\* it has run to its end, it is its value before the batch plus the number
\* of files for which process_uploaded_document returned success; failures
\* and exceptions add nothing.
C10_DocsCountSuccesses ==
    /\ []((pc = "upload" \/ BatchOver) =>
            uploaded_docs = docs_before + Cardinality(Successes))
    /\ [](run = "upload" =>
            /\ uploaded_docs >= docs_before
            /\ uploaded_docs <= docs_before + Cardinality(Successes))
    /\ [][uploaded_docs' >= uploaded_docs]_vars

(* ============================ scraping ================================= *)
\* a "Start Scraping" run that ran to its end
ScrapeOver == pc = "idle" /\ run = "scrape" /\ ~stopped

ScrapeSucceeded == ScrapeOver /\ Kinds(ui, {"success"}) # {}

PageUrls == {pages[i].url : i \in 1..Len(pages)}

\* URLs fetched and dropped for low content
Dropped == seen \ (PageUrls \cup failed \cup Range(frontier))

RECURSIVE SumVals(_, _)
SumVals(u, I) ==
    IF I = {} THEN 0
    ELSE LET i == CHOOSE j \in I : TRUE
         IN  u[i].val + SumVals(u, I \ {i})

\* C2: partial success is reported and nothing is dropped silently: after an
\* upload batch every file has exactly one success or error message, in
\* upload order; and after a scrape that completed with pages, the pages
\* whose fetch failed are reported to the user as well.
C2_PartialSuccessReported ==
    /\ BatchOver =>
          LET shown == SetToSeq(Kinds(ui, {"success", "error"})) IN
              [i \in 1..Len(shown) |-> ui[shown[i]].about] = uploaded_files
    /\ (ScrapeSucceeded /\ crawl_state = "Completed" /\ failed # {}) =>
          \E i \in 1..Len(ui) :
              \/ ui[i].kind \in {"error", "warning"}
              \/ ui[i].about = "Failed"

\* C3: an unreachable seed ends the session in Aborted with no pages, and
\* the "Start Scraping" run that saw it shows an error and no success.
C3_UnreachableSeedNotSuccess ==
    (SeedUrl \in failed /\ IsAbsoluteHttp(crawl_args.seed_url)) =>
        /\ crawl_state = "Aborted"
        /\ pages = <<>>
        /\ ScrapeOver =>
              /\ Kinds(ui, {"success"}) = {}
              /\ Kinds(ui, {"error"}) # {}

\* C7: every crawl invocation has an absolute http(s) seed URL, a page
\* budget between 1 and the upper bound, and a delay >= 0.
C7_CrawlContract ==
    calls # <<>> =>
        /\ IsAbsoluteHttp(crawl_args.seed_url)
        /\ crawl_args.max_pages \in 1..SliderMax
        /\ crawl_args.delay >= 0

CrawlTransitions ==
    {<<"Idle", "Running">>, <<"Running", "Completed">>,
     <<"Running", "Aborted">>}

\* C4: a crawl session moves Idle -> Running -> {Completed, Aborted} and
\* always reaches a terminal state; once the budget is reached or the
\* frontier is empty it ends without another fetch, so the result never
\* holds more than max_pages pages (3 in a preview, the slider value in a
\* full scrape); a failed fetch of a non-seed URL leaves the session Running.
C4_CrawlLifecycle ==
    /\ [](/\ Len(pages) <= crawl_args.max_pages
          /\ run = "preview" => Len(pages) <= PreviewMaxPages
          /\ run = "scrape" => Len(pages) <= max_pages)
    /\ [][/\ (crawl_state' # crawl_state /\ pc = "crawl") =>
                <<crawl_state, crawl_state'>> \in CrawlTransitions
          /\ (crawl_state' # crawl_state /\ pc # "crawl") =>
                crawl_state' = "Idle"
          /\ (Crawling /\ ~CrawlMore) =>
                /\ crawl_state' \in Terminal
                /\ Len(pages') <= Len(pages)
                /\ failed' \subseteq failed
          /\ (Crawling /\ \E u \in failed' \ failed : u # SeedUrl) =>
                crawl_state' = "Running"]_vars
    /\ (crawl_state = "Running") ~> (crawl_state \in Terminal)

\* a full scrape stopped by its budget with URLs still queued
C4_Witness ==
    /\ run = "scrape"
    /\ crawl_state = "Completed"
    /\ Len(pages) = crawl_args.max_pages
    /\ frontier # <<>>

\* the count metadata.page_types holds for a type (none without an entry)
CountOf(pt, t) ==
    TotalCount(SelectSeq(pt, LAMBDA e : e.type = t))

\* the Pages metrics on the screen
PagesMetrics == {i \in Kinds(ui, {"metric"}) : ui[i].about = "Pages"}

\* C5: for every SiteResult, pages_scraped (where the script reads it and in
\* the metadata) is the length of pages and the per-type counts sum to it,
\* each being the number of pages of its type; once the session fields are
\* stored the Pages counter is that length; a Pages metric on the screen
\* shows the stored counter, and whenever the content breakdown is drawn its
\* rows sum to that same number, as they do after every scrape whose
\* summary ran to its end.
C5_CountsAgree ==
    /\ SiteResult.pages_scraped = Len(SiteResult.pages)
    /\ SiteResult.metadata.pages_scraped = Len(SiteResult.pages)
    /\ TotalCount(SiteResult.metadata.page_types) = SiteResult.pages_scraped
    /\ \A t \in PageTypeSet :
          CountOf(SiteResult.metadata.page_types, t) =
              Cardinality({i \in 1..Len(pages) : pages[i].page_type = t})
    /\ pc = "show" => scraped_pages = Len(pages)
    /\ run = "scrape" =>
          \A i \in PagesMetrics :
              ui[i].val = scraped_pages /\ ui[i].val = Len(pages)
    /\ (run = "scrape" /\ Kinds(ui, {"bar"}) # {}) =>
          /\ PagesMetrics # {}
          /\ SumVals(ui, Kinds(ui, {"bar"})) = scraped_pages
    /\ (ScrapeSucceeded /\ exc = NoExc) =>
          /\ scraped_pages = Len(pages)
          /\ PagesMetrics # {}
          /\ SumVals(ui, Kinds(ui, {"bar"})) = scraped_pages

\* a scrape whose summary ran to its end, with pages of two types, a failed
\* fetch and a dropped page
C5_Witness ==
    /\ ScrapeSucceeded
    /\ exc = NoExc
    /\ Cardinality({pages[i].page_type : i \in 1..Len(pages)}) >= 2
    /\ failed # {}
    /\ Dropped # {}

NoDuplicates(q) == \A i, j \in 1..Len(q) : q[i] = q[j] => i = j

\* C6: within a session a URL already visited or queued is never enqueued
\* again, so the frontier and the pages hold no URL twice and no queued URL
\* has been visited.
C6_NoReEnqueue ==
    /\ [](/\ NoDuplicates(frontier)
          /\ NoDuplicates([i \in 1..Len(pages) |-> pages[i].url])
          /\ Range(frontier) \cap (PageUrls \cup failed) = {}
          /\ Range(frontier) \cup PageUrls \cup failed \subseteq seen)
    /\ [][Crawling =>
            \A u \in Range(frontier') \ Range(frontier) : u \notin seen]_vars

\* a session whose pages (each linking to itself and back to the seed) were
\* fetched one after the other, with URLs still queued at the end
C6_Witness ==
    /\ crawl_state = "Completed"
    /\ Len(pages) >= 3
    /\ Dropped # {}
    /\ frontier # <<>>

\* C8: save_results is only called with scraped_<hotel id>.json for the
\* session's non-empty hotel id, and a preview run never calls it.
C8_SaveKeyedByHotel ==
    /\ \A name \in saves :
          /\ name = <<"scraped_", ss_hotel_id, ".json">>
          /\ Truthy(ss_hotel_id)
          /\ name[2] \in HotelIds
    /\ run = "preview" => saves = {}
    /\ "save_results" \in Range(calls) => (saves # {} /\ run = "scrape")

\* a result saved while the sidebar's Hotel ID field is empty
C8_Witness ==
    /\ saves # {}
    /\ hotel_id_input = ""

ScrapeCalls ==
    <<"scrape_hotel_website", "create_knowledge_chunks", "save_results">>

\* C9: "Start Scraping" calls crawl, chunking and persistence in that order;
\* scraped_pages and last_scrape are assigned only in a "Start Scraping"
\* run after the third of them returned, none of them having raised, and a
\* success is shown only after that; when one of the three raises, no step
\* of the run from then on changes either field, no success is shown, and
\* the run, if it runs to its end, shows the error; a run that ran to its
\* end shows the success or the error; a preview run changes none of
\* scraped_pages, last_scrape and uploaded_docs.
C9_UpdateAfterAllThree ==
    /\ [](/\ calls = SubSeq(ScrapeCalls, 1, Len(calls))
          /\ pc \in {"save", "store", "show"} =>
                /\ run = "scrape"
                /\ crawl_state \in Terminal
                /\ exc = NoExc
          /\ pc \in {"store", "show"} => calls = ScrapeCalls
          /\ (run = "scrape" /\ Kinds(ui, {"success"}) # {}) =>
                /\ calls = ScrapeCalls
                /\ scraped_pages = Len(pages)
                /\ exc \in {NoExc, "summary"}
          /\ (run = "scrape" /\ exc \in Range(ScrapeCalls)) =>
                /\ pc \in {"except", "idle"}
                /\ Kinds(ui, {"success"}) = {}
                /\ ScrapeOver => Kinds(ui, {"error"}) # {}
          /\ ScrapeOver =>
                (Kinds(ui, {"success"}) # {} \/ Kinds(ui, {"error"}) # {}))
    /\ [][/\ (scraped_pages' # scraped_pages \/ last_scrape' # last_scrape) =>
                /\ run = "scrape"
                /\ pc = "store"
                /\ calls = ScrapeCalls
                /\ exc = NoExc
          /\ exc' \in Range(ScrapeCalls) =>
                /\ scraped_pages' = scraped_pages
                /\ last_scrape' = last_scrape
          /\ (run = "preview" \/ run' = "preview") =>
                /\ scraped_pages' = scraped_pages
                /\ last_scrape' = last_scrape
                /\ uploaded_docs' = uploaded_docs]_vars

\* save_results raised in a session that had scraped before: the error is
\* on the screen and the fields are those of the earlier scrape
C9_Witness ==
    /\ ScrapeOver
    /\ exc = "save_results"
    /\ Kinds(ui, {"error"}) # {}
    /\ last_scrape # NoTime
    /\ scraped_pages # Len(pages)

\* C11: every temporary file of an upload batch is deleted before the loop
\* goes on to the next file, whatever process_uploaded_document did: while
\* the loop runs and when the batch is over, no temporary file created by
\* the batch still exists.
C11_NoTempFileLeft ==
    (pc = "upload" \/ BatchOver) => tmp_files = {}

====
